---- MODULE Spec2Model ----
(***************************************************************************)
(* A model of the FreeCell solver of src/freecell.cc: the compact board    *)
(* (card bank, cascade dividers, reserve, foundation counters), the six    *)
(* single-card appliers, the successor generator possible_moves, the       *)
(* visited set with relaxation (visit), the priority frontier, the driver  *)
(* loop of solve, path reconstruction and the exit code of main.           *)
(*                                                                         *)
(* Arrays are 0-based functions, as in the source.  A Card is its byte:    *)
(* suit in the two low bits, face in the next five (value = suit + 4*face).*)
(* A pointer to a node of the visited set is the node's index in graph     *)
(* (field addr of the node); 0 is the null pointer.  Field hash is the     *)
(* hash code the visited set keeps with a node it holds.                   *)
(*                                                                         *)
(* solve is followed on boards late in a game (all but a few cards on the  *)
(* foundation), which keeps the visited set small enough to enumerate.     *)
(***************************************************************************)
EXTENDS Integers, Sequences, FiniteSets, TLC

\* ------------------------------------------------------------------------
\* Program constants
\* ------------------------------------------------------------------------
RESERVE_SIZE == 4
CASCADE_COUNT == 8
NUM_DECKS == 1
TOTAL_CARDS == 52 * NUM_DECKS
CARD_BANK_SIZE == TOTAL_CARDS + CASCADE_COUNT

\* 1 << 20
GC_UPPER_BOUND == 1048576
HEURISTIC_GREED == 32
MOVE_PUNISHMENT == 32
INACCESSIBILITY_PUNISHMENT == 32
TABLEAU_REWARD == 1

SPADE == 0
HEART == 1
DIAMOND == 2
CLUB == 3
EMPTY == 0
A == 1
K == 13

\* Move::Place
CASCADE == -3
RESERVE == -2
FOUNDATION == -1

\* ------------------------------------------------------------------------
\* Bounds of the model
\* ------------------------------------------------------------------------
\* The frontier of a late-game board never reaches GC_UPPER_BOUND, so the
\* driver is also followed with the ceiling scaled down to GcScaled, under
\* which the pruning loop of solve does drop entries.
GcScaled == 12
\* Initial deals hold at most MaxLoose cards outside the foundation ...
MaxLoose == 2
\* ... or one suit's top MaxRun cards stacked in rank order in one cascade.
MaxRun == 7
\* The driver loop is followed for at most MaxIter expansions.
MaxIter == 22
\* the longest deal text that is parsed, in characters
MaxDesc == 6

Suits == 0..3
Faces == A..K
ReserveIx == 0..(RESERVE_SIZE - 1)
CascadeIx == 0..(CASCADE_COUNT - 1)
BankIx == 0..(CARD_BANK_SIZE - 1)

\* ------------------------------------------------------------------------
\* Card
\* ------------------------------------------------------------------------
Card(f, s) == s + 4 * f
face(c) == c \div 4
suit(c) == c % 4
\* Card::color(Suit): bit 0 xor bit 1 of the suit
color_of_suit(s) == ((s % 2) + ((s \div 2) % 2)) % 2
color(c) == color_of_suit(suit(c))

\* ------------------------------------------------------------------------
\* Sequence helpers (0-based slices of a bank, pieces joined in order)
\* ------------------------------------------------------------------------
Slice(f, lo, hi) == [k \in 1..(IF hi > lo THEN hi - lo ELSE 0) |-> f[lo + k - 1]]
ToBank(s) == [d \in BankIx |-> s[d + 1]]
\* F(j) for the j in 0..n-1 with P(j), in increasing j
Collect(n, P(_), F(_)) ==
    LET idx == SelectSeq([k \in 1..n |-> k - 1], P)
    IN  [k \in 1..Len(idx) |-> F(idx[k])]
RECURSIVE Flatten(_)
Flatten(ss) == IF ss = <<>> THEN <<>> ELSE Head(ss) \o Flatten(Tail(ss))
RECURSIVE SumTo(_, _)
SumTo(f, n) == IF n < 0 THEN 0 ELSE f[n] + SumTo(f, n - 1)

\* ------------------------------------------------------------------------
\* Board
\* ------------------------------------------------------------------------
\* CascadeView of cascade i: offset of its first card in the bank, length
cascade(b, i) ==
    LET base == IF i # 0 THEN b.cascade_divs[i - 1] + 1 ELSE 0
    IN  [base |-> base, size |-> (b.cascade_divs[i] - base) % 256]
view_empty(v) == v.size = 0
view_back(b, v) == b.cards[v.base + v.size - 1]

cascade_back(b, i) ==
    LET ind == b.cascade_divs[i]
    IN  IF ind # 0 THEN b.cards[ind - 1] ELSE 0

\* cascade_divs[i - 1] as the build reads it.  For i = 0 the index is -1,
\* outside the array: the byte read is the one stored just before
\* cascade_divs in Board, which is foundation[3] (both arrays are arrays of
\* uint8_t, declared one after the other, so no padding separates them).
cascade_divs_before(b, i) ==
    IF i = 0 THEN b.foundation[3] ELSE b.cascade_divs[i - 1]

cascade_empty(b, i) ==
    \/ (i = 0 /\ b.cascade_divs[0] = 0)
    \/ b.cascade_divs[i] = 1 + cascade_divs_before(b, i)

reserve_full(b) == \A i \in ReserveIx : b.reserve[i] # 0

cascade_end(b, i) == b.cascade_divs[i]

\* copy_reserve_and_foundation that copies the foundation only: the fault C25
\* has to notice
copy_foundation_only(res, b) == [res EXCEPT !.foundation = b.foundation]

copy_reserve_and_foundation(res, b) ==
    [res EXCEPT !.reserve = b.reserve, !.foundation = b.foundation]

\* copy_from_and_append putting the card under the last card of the bank
\* before the divider instead of after it: the fault C18 has to notice
copy_from_and_append_under_back(res, b, cas, append) ==
    LET ce == IF cascade_end(b, cas) > 0 THEN cascade_end(b, cas) - 1 ELSE 0
        r1 == copy_reserve_and_foundation(res, b)
    IN  [r1 EXCEPT
          !.cards = ToBank(Slice(b.cards, 0, ce) \o <<append>>
                           \o Slice(b.cards, ce, CARD_BANK_SIZE - 1)),
          !.cascade_divs = [d \in CascadeIx |->
               IF d < cas THEN b.cascade_divs[d] ELSE b.cascade_divs[d] + 1]]

copy_from_and_append(res, b, cas, append) ==
    LET ce == cascade_end(b, cas)
        r1 == copy_reserve_and_foundation(res, b)
    IN  [r1 EXCEPT
          !.cards = ToBank(Slice(b.cards, 0, ce) \o <<append>>
                           \o Slice(b.cards, ce, CARD_BANK_SIZE - 1)),
          !.cascade_divs = [d \in CascadeIx |->
               IF d < cas THEN b.cascade_divs[d] ELSE b.cascade_divs[d] + 1]]

\* copy_from_but_move that shifts the dividers but leaves the bank as it
\* was: the fault C12 has to notice
copy_from_but_move_dividers_only(res, b, from, to, count) ==
    LET r1 == copy_reserve_and_foundation(res, b)
    IN  [r1 EXCEPT
          !.cards = b.cards,
          !.cascade_divs = [d \in CascadeIx |->
               b.cascade_divs[d] - (IF d >= from THEN count ELSE 0)
                                 + (IF d >= to THEN count ELSE 0)]]

copy_from_but_move(res, b, from, to, count) ==
    LET appto == cascade_end(b, to)
        dto   == cascade_end(b, from)
        dfrom == (dto - count) % 256
        r1    == copy_reserve_and_foundation(res, b)
        bank  == IF dfrom < appto
                 THEN Slice(b.cards, 0, dfrom) \o Slice(b.cards, dto, appto)
                      \o Slice(b.cards, dfrom, dto)
                      \o Slice(b.cards, appto, CARD_BANK_SIZE)
                 ELSE Slice(b.cards, 0, appto) \o Slice(b.cards, dfrom, dto)
                      \o Slice(b.cards, appto, dfrom)
                      \o Slice(b.cards, dto, CARD_BANK_SIZE)
    IN  [r1 EXCEPT
          !.cards = ToBank(bank),
          !.cascade_divs = [d \in CascadeIx |->
               b.cascade_divs[d] - (IF d >= from THEN count ELSE 0)
                                 + (IF d >= to THEN count ELSE 0)]]

\* copy_from_but_remove with the dividers left where they were: the fault C7
\* has to notice
copy_from_but_remove_keeping_divs(res, b, cas) ==
    LET lc == cascade_end(b, cas) - 1
        r1 == copy_reserve_and_foundation(res, b)
    IN  [r1 EXCEPT
          !.cards = ToBank(Slice(b.cards, 0, lc)
                           \o Slice(b.cards, lc + 1, CARD_BANK_SIZE) \o <<0>>),
          !.cascade_divs = b.cascade_divs]

copy_from_but_remove(res, b, cas) ==
    LET lc == cascade_end(b, cas) - 1
        r1 == copy_reserve_and_foundation(res, b)
    IN  [r1 EXCEPT
          !.cards = ToBank(Slice(b.cards, 0, lc)
                           \o Slice(b.cards, lc + 1, CARD_BANK_SIZE) \o <<0>>),
          !.cascade_divs = [d \in CascadeIx |->
               IF d < cas THEN b.cascade_divs[d] ELSE b.cascade_divs[d] - 1]]

\* TRUE iff none of the aborting checks fires
check_sanity(b) ==
    /\ \A i \in CascadeIx :
         /\ b.cascade_divs[i] < CARD_BANK_SIZE
         /\ b.cards[b.cascade_divs[i]] = 0
         /\ (i > 0 => b.cascade_divs[i] > b.cascade_divs[i - 1])
    /\ \A i \in ReserveIx : ~(b.reserve[i] # 0 /\ face(b.reserve[i]) = 0)
    /\ \A i \in BankIx : ~(b.cards[i] # 0 /\ face(b.cards[i]) = 0)
    /\ LET rsz == Cardinality({i \in ReserveIx : b.reserve[i] # 0})
           fsz == SumTo(b.foundation, 3)
           bsz == Cardinality({i \in BankIx : b.cards[i] # 0})
       IN  (rsz + fsz + bsz) % 256 = TOTAL_CARDS
    /\ \A i \in CascadeIx :
         LET c == cascade(b, i)
         IN  \A j \in 0..(c.size - 1) : b.cards[c.base + j] # 0

\* reserve_card that always writes the first slot, over the card that may be
\* there: the fault C26 has to notice
reserve_card_first_slot(b, c) == [b EXCEPT !.reserve[0] = c]

reserve_card(b, c) ==
    IF reserve_full(b) THEN b
    ELSE LET i == CHOOSE x \in ReserveIx :
                    b.reserve[x] = 0 /\ \A y \in 0..(x - 1) : b.reserve[y] # 0
         IN  [b EXCEPT !.reserve[i] = c]

\* is_won with "some suit" for "every suit": the fault C2 has to notice
is_won_some_suit(b) == \E i \in Suits : ~(b.foundation[i] < K * NUM_DECKS)

is_won(b) == \A i \in Suits : ~(b.foundation[i] < K * NUM_DECKS)

completion(b) == (SumTo(b.foundation, 3) * 100) \div 52

\* Board::inflate: the FluffyBoard of a board (the foundation as its top
\* cards, the cascades as card lists)
inflate(b) ==
    [foundation |-> [i \in Suits |->
        IF b.foundation[i] # 0
        THEN Card(IF b.foundation[i] % K # 0 THEN b.foundation[i] % K ELSE K, i)
        ELSE 0],
     cascades |-> [i \in CascadeIx |->
        Slice(b.cards, cascade(b, i).base, b.cascade_divs[i])],
     reserve |-> b.reserve]

\* Board(const FluffyBoard&): the bank and the dividers of a list of cascades
RECURSIVE BankOf(_, _)
BankOf(cascades, i) ==
    IF i >= CASCADE_COUNT THEN <<>>
    ELSE cascades[i] \o <<0>> \o BankOf(cascades, i + 1)
RECURSIVE DivOf(_, _)
DivOf(cascades, i) ==
    IF i = 0 THEN Len(cascades[0])
    ELSE DivOf(cascades, i - 1) + 1 + Len(cascades[i])

Board(fb) ==
    LET bank == BankOf(fb.cascades, 0)
    IN  [reserve |-> fb.reserve,
         cards |-> [d \in BankIx |-> IF d < Len(bank) THEN bank[d + 1] ELSE 0],
         foundation |-> [i \in Suits |-> face(fb.foundation[i])],
         cascade_divs |-> [i \in CascadeIx |-> DivOf(fb.cascades, i)]]

\* ------------------------------------------------------------------------
\* Move
\* ------------------------------------------------------------------------
kGameStartMove == [source |-> 0, dest |-> 0, count |-> 0]
place(b, v) == IF view_empty(v) THEN CASCADE ELSE view_back(b, v)
\* Move(Card, Place)
Move_card_place(c, p) == [source |-> c, dest |-> p, count |-> 1]
\* Move(Card, CascadeView)
Move_card_view(c, b, d) == [source |-> c, dest |-> place(b, d), count |-> 1]
\* Move(CascadeView, CascadeView, count)
Move_view_view(b, c, d, count) ==
    [source |-> view_back(b, c), dest |-> place(b, d), count |-> count]
\* Move(CascadeView, Place) naming the place under the card instead of the
\* place moved to: the fault C6 has to notice
Move_view_place_of_source(b, c, p) ==
    [source |-> view_back(b, c), dest |-> CASCADE, count |-> 1]

\* Move(CascadeView, Place)
Move_view_place(b, c, p) == [source |-> view_back(b, c), dest |-> p, count |-> 1]
\* Move::str: "Move <source> onto <dest>"; the count is not rendered
Move_str(m) == <<m.source, m.dest>>

\* ------------------------------------------------------------------------
\* SearchBoard
\* ------------------------------------------------------------------------
\* SearchBoard(const Board&): the root node
SearchBoard_root(board) ==
    [reserve |-> board.reserve, cards |-> board.cards,
     foundation |-> board.foundation, cascade_divs |-> board.cascade_divs,
     previous |-> 0, action_taken |-> kGameStartMove, depth |-> 0,
     heuristic |-> 0, addr |-> 0, hash |-> 0]
\* the same constructor taking the depth of prev as it is, without the step
\* to the child (the fault C23 has to notice)
SearchBoard_prev_same_depth(prev, o_move) ==
    [reserve |-> [i \in ReserveIx |-> 0], cards |-> [i \in BankIx |-> 0],
     foundation |-> [i \in Suits |-> 0], cascade_divs |-> [i \in CascadeIx |-> 0],
     previous |-> prev.addr, action_taken |-> o_move, depth |-> prev.depth,
     heuristic |-> 0, addr |-> 0, hash |-> 0]
\* SearchBoard(const SearchBoard *prev, const Move&): an empty board
SearchBoard_prev(prev, o_move) ==
    [reserve |-> [i \in ReserveIx |-> 0], cards |-> [i \in BankIx |-> 0],
     foundation |-> [i \in Suits |-> 0], cascade_divs |-> [i \in CascadeIx |-> 0],
     previous |-> prev.addr, action_taken |-> o_move, depth |-> prev.depth + 1,
     heuristic |-> 0, addr |-> 0, hash |-> 0]
\* SearchBoard(const Board&, const SearchBoard *prev, const Move&)
SearchBoard_copy(board, prev, o_move) ==
    [reserve |-> board.reserve, cards |-> board.cards,
     foundation |-> board.foundation, cascade_divs |-> board.cascade_divs,
     previous |-> prev.addr, action_taken |-> o_move, depth |-> prev.depth + 1,
     heuristic |-> 0, addr |-> 0, hash |-> 0]

num_moves(b) == b.depth

\* The scan of calc_heuristic: i is the running bank index, carried from one
\* cascade to the next exactly as the loop carries it.
RECURSIVE heur_scan(_, _, _, _)
heur_scan(b, i, d, heur) ==
    IF i + 1 < d
    THEN heur_scan(b, i + 1, d,
            IF face(b.cards[i + 1]) > face(b.cards[i])
            THEN heur - (d - (i + 1)) * INACCESSIBILITY_PUNISHMENT
            ELSE heur + TABLEAU_REWARD)
    ELSE [i |-> i + 1, heur |-> heur]
RECURSIVE heur_cascades(_, _, _, _)
heur_cascades(b, dno, i, heur) ==
    IF dno >= CASCADE_COUNT THEN heur
    ELSE LET r == heur_scan(b, i, b.cascade_divs[dno], heur)
         IN  heur_cascades(b, dno + 1, r.i + 1, r.heur)

calc_heuristic(b) ==
    heur_cascades(b, 0, 0, SumTo(b.foundation, 3) * HEURISTIC_GREED)
      - num_moves(b) * MOVE_PUNISHMENT

\* SearchBoard::Hash: the 64 bytes of cards and foundation, read as eight
\* 64-bit words and xor-ed together; the result as its eight bytes, byte k
\* being the xor of bytes k, k + 8, ..., k + 56 of the block.  The block is
\* a multiple of 8 bytes long, so the branch for a remainder is never taken.
RECURSIVE XorBits(_, _, _)
XorBits(a, b, n) ==
    IF n = 0 THEN 0
    ELSE (((a % 2) + (b % 2)) % 2) + 2 * XorBits(a \div 2, b \div 2, n - 1)
XorByte == [a \in 0..255 |-> [b \in 0..255 |-> XorBits(a, b, 8)]]
HashBlock(b) ==
    [k \in 0..(CARD_BANK_SIZE + 3) |->
        IF k < CARD_BANK_SIZE THEN b.cards[k] ELSE b.foundation[k - CARD_BANK_SIZE]]
RECURSIVE XorLane(_, _, _)
XorLane(block, k, i) ==
    IF i < 0 THEN 0 ELSE XorByte[block[8 * i + k]][XorLane(block, k, i - 1)]
\* Hash over the whole board, reserve included (the block read from the
\* start of the object, four bytes early): the fault C13 has to notice
Hash_from_reserve(b) ==
    LET block == [k \in 0..(CARD_BANK_SIZE + 3) |->
                     IF k < RESERVE_SIZE THEN b.reserve[k]
                     ELSE b.cards[k - RESERVE_SIZE]]
    IN  [k \in 0..7 |-> XorLane(block, k, ((CARD_BANK_SIZE + 4) \div 8) - 1)]

Hash(b) ==
    LET block == HashBlock(b)
    IN  [k \in 0..7 |-> XorLane(block, k, ((CARD_BANK_SIZE + 4) \div 8) - 1)]

BasicallyEqual(a, b) == a.cards = b.cards /\ a.foundation = b.foundation

PtrLess(graph, a, b) == graph[a].heuristic < graph[b].heuristic

\* ------------------------------------------------------------------------
\* Move legality and the six appliers
\* ------------------------------------------------------------------------
\* tableau_stackable without the test of the colors: the fault C9 has to
\* notice
tableau_stackable_any_color(btm, top) ==
    IF top = 0 THEN FALSE
    ELSE face(btm) = face(top) + 1 \/ btm = 0

tableau_stackable(btm, top) ==
    IF top = 0 THEN FALSE
    ELSE (face(btm) = face(top) + 1 /\ color(btm) # color(top)) \/ btm = 0

\* foundation_can_accept for any card of the suit, whatever its rank: the
\* fault C8 has to notice
foundation_can_accept_any_rank(b, c) == c # 0

foundation_can_accept(b, c) ==
    c # 0 /\ (b.foundation[suit(c)] + 1) % K = face(c) % K

reserve_to_tableau_valid(b, reserve, cas) ==
    tableau_stackable(cascade_back(b, cas), b.reserve[reserve])

reserve_to_tableau(b, reserve, cas) ==
    LET res == SearchBoard_prev(b, Move_card_view(b.reserve[reserve], b, cascade(b, cas)))
        r1  == copy_from_and_append(res, b, cas, b.reserve[reserve])
    IN  [r1 EXCEPT !.reserve[reserve] = 0]

tableaux_move_valid(b, source, dest) ==
    tableau_stackable(cascade_back(b, dest), cascade_back(b, source))

tableaux_move(b, source, dest) ==
    LET res == SearchBoard_prev(b, Move_view_view(b, cascade(b, source), cascade(b, dest), 1))
    IN  copy_from_but_move(res, b, source, dest, 1)

tableau_to_reserve(b, source) ==
    LET res == SearchBoard_prev(b, Move_view_place(b, cascade(b, source), RESERVE))
        r1  == copy_from_but_remove(res, b, source)
    IN  reserve_card(r1, cascade_back(b, source))

tableau_to_foundation(b, source) ==
    LET res == SearchBoard_prev(b, Move_view_place(b, cascade(b, source), FOUNDATION))
        r1  == copy_from_but_remove(res, b, source)
        s   == suit(cascade_back(b, source))
    IN  [r1 EXCEPT !.foundation[s] = (@ + 1) % 256]

foundation_to_tableau_valid(board, foundation, cas) ==
    IF board.foundation[foundation] = 0 THEN FALSE
    ELSE LET onto == cascade_back(board, cas)
         IN  IF onto = 0 THEN TRUE
             ELSE IF color_of_suit(foundation) = color(onto) THEN FALSE
             ELSE board.foundation[foundation] = face(onto) - 1

foundation_to_tableau(b, foundation, cas) ==
    LET fcard == Card(b.foundation[foundation], foundation)
        res   == SearchBoard_prev(b, Move_card_view(fcard, b, cascade(b, cas)))
        r1    == copy_from_and_append(res, b, cas, fcard)
    IN  [r1 EXCEPT !.foundation[foundation] = (@ - 1) % 256]

reserve_to_foundation(b, reserve) ==
    LET res == SearchBoard_copy(b, b, Move_card_place(b.reserve[reserve], FOUNDATION))
        s   == suit(b.reserve[reserve])
    IN  [res EXCEPT !.reserve[reserve] = 0, !.foundation[s] = (@ + 1) % 256]

\* ------------------------------------------------------------------------
\* possible_moves: the children in the order the loops generate them
\* ------------------------------------------------------------------------
\* the body of the loop over cascade i
moves_of_cascade(board, i) ==
    LET rt(j)  == reserve_to_tableau(board, j, i)
        rtv(j) == reserve_to_tableau_valid(board, j, i)
        tm(j)  == tableaux_move(board, i, j)
        tmv(j) == tableaux_move_valid(board, i, j)
        ft(j)  == foundation_to_tableau(board, j, i)
        ftv(j) == foundation_to_tableau_valid(board, j, i)
    IN  Collect(RESERVE_SIZE, rtv, rt)
        \o (IF cascade_empty(board, i) THEN <<>>
            ELSE Collect(CASCADE_COUNT, tmv, tm)
                 \o (IF ~reserve_full(board)
                     THEN <<tableau_to_reserve(board, i)>> ELSE <<>>)
                 \o (IF foundation_can_accept(board, cascade_back(board, i))
                     THEN <<tableau_to_foundation(board, i)>> ELSE <<>>)
                 \o Collect(4, ftv, ft))

generated_moves(board) ==
    LET rf(i)  == reserve_to_foundation(board, i)
        rfv(i) == foundation_can_accept(board, board.reserve[i])
    IN  Flatten([k \in 1..CASCADE_COUNT |-> moves_of_cascade(board, k - 1)])
        \o Collect(RESERVE_SIZE, rfv, rf)


\* ------------------------------------------------------------------------
\* The visited set (MoveGraph) and visit
\* ------------------------------------------------------------------------
\* unordered_set::insert: the board is looked up among the nodes with its
\* hash code, compared under BasicallyEqual; [graph, first, second] is the
\* set afterwards, the address of the node found or made, and whether it
\* was made.
\* a visited set held to the scaled frontier ceiling, a new board taking the
\* place of the newest node once it is full (the fault C15 has to notice)
graph_insert_recycling(graph0, board) ==
    LET h     == Hash(board)
        found == {p \in 1..Len(graph0) :
                     graph0[p].hash = h /\ BasicallyEqual(graph0[p], board)}
    IN  IF found # {}
        THEN [graph |-> graph0, first |-> CHOOSE q \in found : TRUE, second |-> FALSE]
        ELSE IF Len(graph0) < GcScaled
        THEN [graph  |-> Append(graph0, [board EXCEPT !.addr = Len(graph0) + 1, !.hash = h]),
              first  |-> Len(graph0) + 1,
              second |-> TRUE]
        ELSE [graph  |-> [graph0 EXCEPT ![Len(graph0)] =
                             [board EXCEPT !.addr = Len(graph0), !.hash = h]],
              first  |-> Len(graph0),
              second |-> TRUE]

graph_insert(graph0, board) ==
    LET h     == Hash(board)
        found == {p \in 1..Len(graph0) :
                     graph0[p].hash = h /\ BasicallyEqual(graph0[p], board)}
    IN  IF found = {}
        THEN [graph  |-> Append(graph0, [board EXCEPT !.addr = Len(graph0) + 1,
                                                      !.hash = h]),
              first  |-> Len(graph0) + 1,
              second |-> TRUE]
        ELSE [graph |-> graph0, first |-> CHOOSE q \in found : TRUE, second |-> FALSE]

\* st is [dest, graph, sane], where sane turns FALSE when check_sanity
\* aborts the process.
\* visit without the comparison of depths: a known board is handed to
\* whichever parent produced it last (the fault C14 has to notice)
visit_relax_always(st, board0) ==
    LET board == [board0 EXCEPT !.heuristic = calc_heuristic(board0)]
        ins   == graph_insert(st.graph, board)
        p     == ins.first
    IN  IF ~st.sane THEN st
        ELSE IF ~check_sanity(board) THEN [st EXCEPT !.sane = FALSE]
        ELSE IF ins.second
        THEN [st EXCEPT !.graph = ins.graph, !.dest = Append(st.dest, p)]
        ELSE IF board.previous # 0
             THEN [st EXCEPT !.graph[p].depth = st.graph[board.previous].depth + 1,
                             !.graph[p].previous = board.previous]
             ELSE st

\* visit handing every known board back to the caller as if it were new, so
\* that solve pushes it again (the fault C17 has to notice)
visit_requeue_known(st, board0) ==
    LET board == [board0 EXCEPT !.heuristic = calc_heuristic(board0)]
        ins   == graph_insert(st.graph, board)
        p     == ins.first
    IN  IF ~st.sane THEN st
        ELSE IF ~check_sanity(board) THEN [st EXCEPT !.sane = FALSE]
        ELSE IF ins.second
        THEN [st EXCEPT !.graph = ins.graph, !.dest = Append(st.dest, p)]
        ELSE IF /\ board.previous # 0
                /\ st.graph[board.previous].depth + 1 < st.graph[p].depth
             THEN [st EXCEPT !.graph[p].depth = st.graph[board.previous].depth + 1,
                             !.graph[p].previous = board.previous,
                             !.dest = Append(st.dest, p)]
             ELSE [st EXCEPT !.dest = Append(st.dest, p)]

\* visit storing the score of the shorter path too when it relaxes a node
\* (the fault C19 has to notice)
visit_rescoring(st, board0) ==
    LET board == [board0 EXCEPT !.heuristic = calc_heuristic(board0)]
        ins   == graph_insert(st.graph, board)
        p     == ins.first
    IN  IF ~st.sane THEN st
        ELSE IF ~check_sanity(board) THEN [st EXCEPT !.sane = FALSE]
        ELSE IF ins.second
        THEN [st EXCEPT !.graph = ins.graph, !.dest = Append(st.dest, p)]
        ELSE IF /\ board.previous # 0
                /\ st.graph[board.previous].depth + 1 < st.graph[p].depth
             THEN [st EXCEPT !.graph[p].depth = st.graph[board.previous].depth + 1,
                             !.graph[p].previous = board.previous,
                             !.graph[p].heuristic = board.heuristic]
             ELSE st

\* visit handing a node it has relaxed back to the caller, so that solve
\* pushes it a second time (the fault C22 has to notice)
visit_requeue_relaxed(st, board0) ==
    LET board == [board0 EXCEPT !.heuristic = calc_heuristic(board0)]
        ins   == graph_insert(st.graph, board)
        p     == ins.first
    IN  IF ~st.sane THEN st
        ELSE IF ~check_sanity(board) THEN [st EXCEPT !.sane = FALSE]
        ELSE IF ins.second
        THEN [st EXCEPT !.graph = ins.graph, !.dest = Append(st.dest, p)]
        ELSE IF /\ board.previous # 0
                /\ st.graph[board.previous].depth + 1 < st.graph[p].depth
             THEN [st EXCEPT !.graph[p].depth = st.graph[board.previous].depth + 1,
                             !.graph[p].previous = board.previous,
                             !.dest = Append(st.dest, p)]
             ELSE st

visit(st, board0) ==
    LET board == [board0 EXCEPT !.heuristic = calc_heuristic(board0)]
        ins   == graph_insert(st.graph, board)
        p     == ins.first
    IN  IF ~st.sane THEN st
        ELSE IF ~check_sanity(board) THEN [st EXCEPT !.sane = FALSE]
        ELSE IF ins.second
        THEN [st EXCEPT !.graph = ins.graph, !.dest = Append(st.dest, p)]
        ELSE IF /\ board.previous # 0
                /\ st.graph[board.previous].depth + 1 < st.graph[p].depth
             THEN [st EXCEPT
                     !.graph[p].depth = st.graph[board.previous].depth + 1,
                     !.graph[p].previous = board.previous]
             ELSE st

RECURSIVE visit_each(_, _, _)
visit_each(st, children, k) ==
    IF k > Len(children) THEN st
    ELSE visit_each(visit(st, children[k]), children, k + 1)

\* possible_moves(board, move_graph): [dest |-> the new nodes, graph, sane]
possible_moves(board, move_graph) ==
    visit_each([dest |-> <<>>, graph |-> move_graph, sane |-> TRUE],
               generated_moves(board), 1)

\* ------------------------------------------------------------------------
\* The frontier: std::priority_queue over a vector c, ordered by PtrLess
\* (push_heap / pop_heap of the standard library), plus pop_back
\* ------------------------------------------------------------------------
RECURSIVE push_heap_up(_, _, _, _)
push_heap_up(graph0, c, hole, value) ==
    IF hole > 0 /\ PtrLess(graph0, c[((hole - 1) \div 2) + 1], value)
    THEN push_heap_up(graph0, [c EXCEPT ![hole + 1] = c[((hole - 1) \div 2) + 1]],
                      (hole - 1) \div 2, value)
    ELSE [c EXCEPT ![hole + 1] = value]

\* push that leaves the new entry at the end of the vector, without
\* push_heap (the fault C21 has to notice)
SearchQ_push_unsifted(graph0, c, x) == Append(c, x)

SearchQ_push(graph0, c, x) == push_heap_up(graph0, Append(c, x), Len(c), x)

RECURSIVE adjust_heap_down(_, _, _, _)
adjust_heap_down(graph0, c, second, len) ==
    IF second < (len - 1) \div 2
    THEN LET s2 == 2 * (second + 1)
             s  == IF PtrLess(graph0, c[s2 + 1], c[s2]) THEN s2 - 1 ELSE s2
         IN  adjust_heap_down(graph0, [c EXCEPT ![second + 1] = c[s + 1]], s, len)
    ELSE [c |-> c, hole |-> second]

SearchQ_pop(graph0, c) ==
    IF Len(c) <= 1 THEN <<>>
    ELSE LET len   == Len(c) - 1
             value == c[Len(c)]
             r     == adjust_heap_down(graph0, SubSeq(c, 1, len), 0, len)
             r2    == IF len % 2 = 0 /\ r.hole = (len - 2) \div 2
                      THEN [c |-> [r.c EXCEPT ![r.hole + 1] = r.c[2 * (r.hole + 1)]],
                            hole |-> 2 * (r.hole + 1) - 1]
                      ELSE r
         IN  push_heap_up(graph0, r2.c, r2.hole, value)

SearchQ_top(c) == c[1]
SearchQ_pop_back(c) == SubSeq(c, 1, Len(c) - 1)

RECURSIVE push_each(_, _, _, _)
push_each(graph0, c, moves, k) ==
    IF k > Len(moves) THEN c
    ELSE push_each(graph0, SearchQ_push(graph0, c, moves[k]), moves, k + 1)

\* an if where solve has a while: one entry dropped per iteration (the fault
\* C16 has to notice)
prune_once(c, freed, limit) ==
    IF Len(c) > limit THEN [c |-> SearchQ_pop_back(c), freed |-> freed + 1]
    ELSE [c |-> c, freed |-> freed]

\* the pruning loop of solve: [c, freed] after it
RECURSIVE prune_loop(_, _, _)
prune_loop(c, freed, limit) ==
    IF Len(c) > limit THEN prune_loop(SearchQ_pop_back(c), freed + 1, limit)
    ELSE [c |-> c, freed |-> freed]

\* ------------------------------------------------------------------------
\* describeMoves
\* ------------------------------------------------------------------------
MoveDescription(move, board) == [action |-> Move_str(move), result |-> inflate(board)]

RECURSIVE describeMoves_from(_, _)
describeMoves_from(graph0, b) ==
    IF graph0[b].previous = 0 THEN <<>>
    ELSE describeMoves_from(graph0, graph0[b].previous)
         \o <<MoveDescription(graph0[b].action_taken, graph0[b])>>

\* describeMoves with the walk stopped one node early, so that the first
\* move is left out: the fault C3 has to notice
describeMoves_first_dropped(graph0, winning_board) ==
    LET all == describeMoves_from(graph0, winning_board)
    IN  IF all = <<>> THEN <<>> ELSE Tail(all)

describeMoves(graph0, winning_board) == describeMoves_from(graph0, winning_board)

\* ------------------------------------------------------------------------
\* Initial deals
\* ------------------------------------------------------------------------
Perms(S) == {p \in [1..Cardinality(S) -> S] : \A i, j \in DOMAIN p : i # j => p[i] # p[j]}

\* the cards of perm sent to place l by loc, in the order of perm
Placed(perm, loc, l) ==
    LET idx == SelectSeq([k \in 1..Len(perm) |-> k], LAMBDA k : loc[k] = l)
    IN  [j \in 1..Len(idx) |-> perm[idx[j]]]

FoundationCards(f) == [s \in Suits |-> IF f[s] = 0 THEN 0 ELSE Card(f[s], s)]

\* places 0..7 are the cascades, place 8 is the reserve
FluffyDeal(f, perm, loc) ==
    [foundation |-> FoundationCards(f),
     cascades |-> [i \in CascadeIx |-> Placed(perm, loc, i)],
     reserve |-> LET r == Placed(perm, loc, CASCADE_COUNT)
                 IN  [i \in ReserveIx |-> IF i < Len(r) THEN r[i + 1] ELSE 0]]

LooseCards(f) == {c \in 4..(4 * K + 3) : face(c) > f[suit(c)]}

Foundations(n) ==
    {f \in [Suits -> (K - n)..K] : TOTAL_CARDS - SumTo(f, 3) <= n}

\* every arrangement of at most MaxLoose cards, the rest on the foundation
NearWonDeals ==
    UNION {{Board(FluffyDeal(f, perm, loc)) :
               perm \in Perms(LooseCards(f)),
               loc \in [1..Cardinality(LooseCards(f)) -> 0..CASCADE_COUNT]} :
           f \in Foundations(MaxLoose)}

\* the top n cards of suit s in cascade c, king first, the lowest on top
RunDeal(s, c, n) ==
    [foundation |-> FoundationCards([t \in Suits |-> IF t = s THEN K - n ELSE K]),
     cascades |-> [i \in CascadeIx |->
        IF i = c THEN [k \in 1..n |-> Card(K - k + 1, s)] ELSE <<>>],
     reserve |-> [i \in ReserveIx |-> 0]]

RunDeals == {Board(RunDeal(s, c, n)) : s \in Suits, c \in CascadeIx, n \in 1..MaxRun}

\* the queens and kings of two suits s, t: the king of t in the reserve,
\* the king of s on the queen of t in cascade 0, the queen of s in cascade c
CrossDeal(s, t, c) ==
    [foundation |-> FoundationCards([u \in Suits |-> IF u \in {s, t} THEN K - 2 ELSE K]),
     cascades |-> [i \in CascadeIx |->
        IF i = 0 THEN <<Card(K - 1, t), Card(K, s)>>
        ELSE IF i = c THEN <<Card(K - 1, s)>> ELSE <<>>],
     reserve |-> [i \in ReserveIx |-> IF i = 0 THEN Card(K, t) ELSE 0]]

CrossDeals == {Board(CrossDeal(SPADE, HEART, 6)), Board(CrossDeal(HEART, SPADE, 6))}

\* the same four cards: the king of s on the queen and king of t in cascade c,
\* the queen of s alone in cascade c + 1
PileDeal(s, t, c) ==
    [foundation |-> FoundationCards([u \in Suits |-> IF u \in {s, t} THEN K - 2 ELSE K]),
     cascades |-> [i \in CascadeIx |->
        IF i = c THEN <<Card(K, t), Card(K - 1, t), Card(K, s)>>
        ELSE IF i = c + 1 THEN <<Card(K - 1, s)>> ELSE <<>>],
     reserve |-> [i \in ReserveIx |-> 0]]

PileDeals == {Board(PileDeal(SPADE, HEART, 1)), Board(PileDeal(CLUB, DIAMOND, 1))}

\* one king left, in reserve slot r
KingDeal(s, r) ==
    [foundation |-> FoundationCards([u \in Suits |-> IF u = s THEN K - 1 ELSE K]),
     cascades |-> [i \in CascadeIx |-> <<>>],
     reserve |-> [i \in ReserveIx |-> IF i = r THEN Card(K, s) ELSE 0]]

KingDeals == {Board(KingDeal(s, r)) : s \in Suits, r \in ReserveIx}

\* two ways into the reserve: the king of s alone in cascade c, the king of t
\* on the queens of t and s in cascade c + 1
TwinDeal(s, t, c) ==
    [foundation |-> FoundationCards([u \in Suits |-> IF u \in {s, t} THEN K - 2 ELSE K]),
     cascades |-> [i \in CascadeIx |->
        IF i = c THEN <<Card(K, s)>>
        ELSE IF i = c + 1 THEN <<Card(K - 1, s), Card(K - 1, t), Card(K, t)>> ELSE <<>>],
     reserve |-> [i \in ReserveIx |-> 0]]

TwinDeals == {Board(TwinDeal(SPADE, HEART, 1)), Board(TwinDeal(DIAMOND, CLUB, 4))}

\* three cards left: the king of s on its queen in cascade c, the king of u
\* in the reserve
BuriedQueenDeal(s, u, c) ==
    [foundation |-> FoundationCards([t \in Suits |->
        IF t = s THEN K - 2 ELSE IF t = u THEN K - 1 ELSE K]),
     cascades |-> [i \in CascadeIx |->
        IF i = c THEN <<Card(K - 1, s), Card(K, s)>> ELSE <<>>],
     reserve |-> [i \in ReserveIx |-> IF i = 0 THEN Card(K, u) ELSE 0]]

BuriedQueenDeals == {Board(BuriedQueenDeal(SPADE, CLUB, 3))}

InitialDeals ==
    NearWonDeals \cup RunDeals \cup CrossDeals \cup PileDeals \cup KingDeals
    \cup TwinDeals \cup BuriedQueenDeals

\* ------------------------------------------------------------------------
\* State
\* ------------------------------------------------------------------------
\* ------------------------------------------------------------------------
\* The deal text: Card(string) and the scan of FluffyBoard(string). A text is
\* a sequence of characters (strings of length one).
\* ------------------------------------------------------------------------
\* std::isspace in the C locale (the vertical tab left out)
IsSpace(ch) == ch \in {" ", "\t", "\n", "\f", "\r"}

Digits == <<"0", "1", "2", "3", "4", "5", "6", "7", "8", "9">>
IsDigit(ch) == \E d \in 1..10 : Digits[d] = ch
DigitVal(ch) == (CHOOSE d \in 1..10 : Digits[d] = ch) - 1

\* atoi of the digits desc[f + 1 .. i], capped where no face is that high
RECURSIVE Atoi(_, _, _)
Atoi(desc, f, i) ==
    IF i <= f THEN 0
    ELSE LET v == 10 * Atoi(desc, f, i - 1) + DigitVal(desc[i])
         IN  IF v > 100 THEN 100 ELSE v

\* while (i < desc.length() && std::isspace(desc[i])) ++i
RECURSIVE SkipSpace(_, _)
SkipSpace(desc, i) ==
    IF i < Len(desc) /\ IsSpace(desc[i + 1]) THEN SkipSpace(desc, i + 1) ELSE i

\* while (i < desc.length() && desc[i] >= '0' && desc[i] <= '9') ++i
RECURSIVE SkipDigits(_, _)
SkipDigits(desc, i) ==
    IF i < Len(desc) /\ IsDigit(desc[i + 1]) THEN SkipDigits(desc, i + 1) ELSE i

FaceOfLetter(ch) ==
    CASE ch \in {"a", "A"} -> A
      [] ch \in {"t", "T"} -> 10
      [] ch \in {"j", "J"} -> 11
      [] ch \in {"q", "Q"} -> 12
      [] ch \in {"k", "K"} -> K
      [] OTHER -> 0

SuitOfLetter(ch) ==
    CASE ch \in {"h", "H"} -> HEART
      [] ch \in {"d", "D"} -> DIAMOND
      [] ch \in {"c", "C"} -> CLUB
      [] ch \in {"s", "S"} -> SPADE
      [] OTHER -> 0 - 1

\* Card(string desc): the card, or 0 where the constructor aborts
Card_string(desc) ==
    LET f  == SkipSpace(desc, 0)
        i  == SkipDigits(desc, f)
        fc == IF f >= Len(desc) THEN 0
              ELSE IF i = f THEN FaceOfLetter(desc[i + 1])
              ELSE (IF Atoi(desc, f, i) < A \/ Atoi(desc, f, i) > K
                    THEN 0 ELSE Atoi(desc, f, i))
        i2 == IF i = f THEN i + 1 ELSE i
        st == IF i2 >= Len(desc) THEN 0 - 1 ELSE SuitOfLetter(desc[i2 + 1])
    IN  IF fc = 0 \/ st < 0 THEN 0
        ELSE IF \E k \in (i2 + 2)..Len(desc) : ~IsSpace(desc[k]) THEN 0
        ELSE Card(fc, st)

IsBlank(ch) == ch \in {" ", "\t"}
IsReset(ch) == ch \in {":", "\r", "\n"}
InToken(ch) == ~IsSpace(ch) /\ ch # ":"

\* while (i < desc.length() && (desc[i] == ' ' || desc[i] == '\t')) ++i
RECURSIVE SkipBlanks(_, _)
SkipBlanks(desc, i) ==
    IF i < Len(desc) /\ IsBlank(desc[i + 1]) THEN SkipBlanks(desc, i + 1) ELSE i

\* while (i < desc.length() && !std::isspace(desc[i]) && desc[i] != ':') ++i
RECURSIVE TokenEnd(_, _)
TokenEnd(desc, i) ==
    IF i < Len(desc) /\ InToken(desc[i + 1]) THEN TokenEnd(desc, i + 1) ELSE i

\* the state of the scan before the first character
ParseStart(desc) ==
    [desc |-> desc, i |-> 0, cascade |-> 0, cascades |-> <<>>, pc |-> "scan"]

NoParse == [desc |-> <<>>, i |-> 0, cascade |-> 0, cascades |-> <<>>, pc |-> "idle"]

VARIABLES
    graph,          \* move_graph: the visited nodes, in insertion order
    search,         \* the vector of the frontier (node addresses)
    pc,             \* position of solve / main
    ino,            \* iterations of the driver loop so far
    freed_results,  \* frontier entries dropped by the pruning loop
    gc_limit,       \* the frontier ceiling this run of solve is built with
    result,         \* the MoveList returned by solve
    exit_code,      \* the status returned by main (-1: still running)
    wb,             \* the board of a walk over generated successors
    parse           \* FluffyBoard(string): the text, the scan position, the
                    \* cascade index and the cascades read so far

vars == <<graph, search, pc, ino, freed_results, gc_limit, result, exit_code, wb, parse>>
solve_vars == <<graph, search, pc, ino, freed_results, gc_limit, result, exit_code>>

NoBoard == Board(RunDeal(SPADE, 0, 0))

\* solve(game) up to the while loop: the root is inserted and pushed
Init ==
    /\ \E game \in InitialDeals :
          graph = graph_insert(<<>>, SearchBoard_root(game)).graph
    /\ search = <<1>>
    /\ pc = "loop"
    /\ ino = 0
    /\ freed_results = 0
    /\ gc_limit \in {GcScaled, GC_UPPER_BOUND}
    /\ result = <<>>
    /\ exit_code = -1
    /\ wb = SearchBoard_root(NoBoard)
    /\ parse = NoParse

\* the loop finds a won board on top of the frontier
solve_success ==
    /\ pc = "loop"
    /\ search # <<>>
    /\ is_won(graph[SearchQ_top(search)])
    /\ result' = describeMoves(graph, SearchQ_top(search))
    /\ pc' = "returned"
    /\ UNCHANGED <<graph, search, ino, freed_results, gc_limit, exit_code, wb, parse>>

\* one iteration up to the pruning loop: expand the top, pop it, push the
\* new nodes
solve_expand ==
    /\ pc = "loop"
    /\ search # <<>>
    /\ ~is_won(graph[SearchQ_top(search)])
    /\ ino < MaxIter
    /\ \E moves \in {possible_moves(graph[SearchQ_top(search)], graph)} :
          IF ~moves.sane
          THEN /\ pc' = "aborted"
               /\ UNCHANGED <<graph, search, ino>>
          ELSE /\ graph' = moves.graph
               /\ \E popped \in {SearchQ_pop(moves.graph, search)} :
                     search' = push_each(moves.graph, popped, moves.dest, 1)
               /\ ino' = ino + 1
               /\ pc' = "gc"
    /\ UNCHANGED <<freed_results, gc_limit, result, exit_code, wb, parse>>

\* the pruning loop that ends the iteration
solve_prune ==
    /\ pc = "gc"
    /\ \E r \in {prune_loop(search, freed_results, gc_limit)} :
          /\ search' = r.c
          /\ freed_results' = r.freed
    /\ pc' = "loop"
    /\ UNCHANGED <<graph, ino, gc_limit, result, exit_code, wb, parse>>

\* the frontier is empty: solve returns the empty list
solve_exhausted ==
    /\ pc = "loop"
    /\ search = <<>>
    /\ result' = <<>>
    /\ pc' = "returned"
    /\ UNCHANGED <<graph, search, ino, freed_results, gc_limit, exit_code, wb, parse>>

\* main after solve: the exit status
main_exit ==
    /\ pc = "returned"
    /\ exit_code' = IF result = <<>> THEN 1 ELSE 0
    /\ pc' = "exited"
    /\ UNCHANGED <<graph, search, ino, freed_results, gc_limit, result, wb, parse>>

Next ==
    \/ solve_success
    \/ solve_expand
    \/ solve_prune
    \/ solve_exhausted
    \/ main_exit

Spec == Init /\ [][Next]_vars

\* the deals on which termination is followed to the end: the long searches
\* and the one that is exhausted
LiveDeals == RunDeals \cup CrossDeals \cup PileDeals \cup TwinDeals \cup KingDeals

InitLive ==
    /\ \E game \in LiveDeals :
          graph = graph_insert(<<>>, SearchBoard_root(game)).graph
    /\ search = <<1>>
    /\ pc = "loop"
    /\ ino = 0
    /\ freed_results = 0
    /\ gc_limit \in {GcScaled, GC_UPPER_BOUND}
    /\ result = <<>>
    /\ exit_code = -1
    /\ wb = SearchBoard_root(NoBoard)
    /\ parse = NoParse

\* the guards of the five steps: the thread has a step to take
Running ==
    \/ pc = "gc"
    \/ pc = "returned"
    \/ pc = "loop" /\ (search = <<>> \/ is_won(graph[SearchQ_top(search)]) \/ ino < MaxIter)

\* the thread moves on: every step of Next changes pc, and nothing else does
Advance ==
    /\ Running
    /\ \E q \in {"loop", "gc", "returned", "aborted", "exited"} \ {pc} : pc' = q

\* solve and main are one sequential thread: while it has a step to take it
\* moves on
SpecLive == InitLive /\ [][Next]_vars /\ WF_pc(Advance)

\* ------------------------------------------------------------------------
\* A walk over the boards possible_moves generates: each generated child is
\* taken as the next board to expand, as long as at most MaxLoose cards are
\* off the foundation or the child has fewer of them than its parent.  wb
\* keeps the move that made it; the walk keeps no path, so no depth
\* ------------------------------------------------------------------------
CardsOff(b) == TOTAL_CARDS - SumTo(b.foundation, 3)

\* the queens and kings of two suits of different colors: the king of t in
\* the reserve, the queen of t on the queen of s in cascade a, the king of s
\* alone in cascade b
StackDeal(s, t, a, b) ==
    [foundation |-> FoundationCards([u \in Suits |-> IF u \in {s, t} THEN K - 2 ELSE K]),
     cascades |-> [i \in CascadeIx |->
        IF i = a THEN <<Card(K - 1, s), Card(K - 1, t)>>
        ELSE IF i = b THEN <<Card(K, s)>> ELSE <<>>],
     reserve |-> [i \in ReserveIx |-> IF i = 0 THEN Card(K, t) ELSE 0]]

StackDeals == {Board(StackDeal(SPADE, HEART, 2, 5)), Board(StackDeal(DIAMOND, CLUB, 6, 3))}

WalkDeals == NearWonDeals \cup RunDeals \cup StackDeals

InitWalk ==
    /\ \E game \in WalkDeals : wb = SearchBoard_root(game)
    /\ parse = NoParse
    /\ graph = <<>>
    /\ search = <<>>
    /\ pc = "walk"
    /\ ino = 0
    /\ freed_results = 0
    /\ gc_limit = GC_UPPER_BOUND
    /\ result = <<>>
    /\ exit_code = -1

walk_move ==
    /\ pc = "walk"
    /\ \E children \in {generated_moves(wb)} :
          \E k \in 1..Len(children) :
             /\ CardsOff(children[k]) <= MaxLoose \/ CardsOff(children[k]) < CardsOff(wb)
             /\ wb' = [children[k] EXCEPT !.depth = 0]
    /\ UNCHANGED <<solve_vars, parse>>

NextWalk == walk_move

SpecWalk == InitWalk /\ [][NextWalk]_vars

\* ------------------------------------------------------------------------
\* FluffyBoard(string desc), one pass of its loop per step, over every text
\* of at most MaxDesc characters of DescChars
\* ------------------------------------------------------------------------
DescChars == {":", " ", "\n", "K", "1", "S"}

Descs == UNION {[1..n -> DescChars] : n \in 0..MaxDesc}

InitParse ==
    /\ \E desc \in Descs : parse = ParseStart(desc)
    /\ wb = SearchBoard_root(NoBoard)
    /\ graph = <<>>
    /\ search = <<>>
    /\ pc = "parse"
    /\ ino = 0
    /\ freed_results = 0
    /\ gc_limit = GC_UPPER_BOUND
    /\ result = <<>>
    /\ exit_code = -1

\* only blanks are left: the loop ends
parse_end ==
    /\ pc = "parse" /\ parse.pc = "scan"
    /\ SkipBlanks(parse.desc, parse.i) >= Len(parse.desc)
    /\ parse' = [parse EXCEPT !.i = Len(parse.desc), !.pc = "done"]
    /\ UNCHANGED <<solve_vars, wb>>

\* a colon, a carriage return or a line feed: cascade = 0
parse_reset ==
    /\ pc = "parse" /\ parse.pc = "scan"
    /\ LET i == SkipBlanks(parse.desc, parse.i)
       IN  /\ i < Len(parse.desc)
           /\ IsReset(parse.desc[i + 1])
           /\ parse' = [parse EXCEPT !.cascade = 0, !.i = i + 1]
    /\ UNCHANGED <<solve_vars, wb>>

\* a token: the card it spells goes to cascades[cascade++], a new cascade
\* being added when that one does not exist yet; a token that spells no card
\* aborts the program
parse_card ==
    /\ pc = "parse" /\ parse.pc = "scan"
    /\ LET f    == SkipBlanks(parse.desc, parse.i)
           i    == TokenEnd(parse.desc, f)
           card == Card_string(SubSeq(parse.desc, f + 1, i))
           grown == IF parse.cascade >= Len(parse.cascades)
                    THEN Append(parse.cascades, <<>>) ELSE parse.cascades
       IN  /\ f < Len(parse.desc)
           /\ ~IsReset(parse.desc[f + 1])
           /\ parse' = IF card = 0
                       THEN [parse EXCEPT !.i = i, !.pc = "aborted"]
                       ELSE [parse EXCEPT
                               !.i = i,
                               !.cascades = [grown EXCEPT ![parse.cascade + 1] =
                                               Append(@, card)],
                               !.cascade = @ + 1]
    /\ UNCHANGED <<solve_vars, wb>>

NextParse == parse_end \/ parse_reset \/ parse_card

SpecParse == InitParse /\ [][NextParse]_vars

\* ------------------------------------------------------------------------
\* The vocabulary of the properties: a board as its cascades, its foundation
\* counters and the set of its reserve cards, and the legality table over it
\* ------------------------------------------------------------------------
View(fb) ==
    [cascades |-> fb.cascades,
     foundation |-> [s \in Suits |-> face(fb.foundation[s])],
     reserve |-> {fb.reserve[i] : i \in ReserveIx} \ {0}]

Top(cas) == IF cas = <<>> THEN 0 ELSE cas[Len(cas)]

\* a single-card transition: from a cascade (si its index), a reserve card
\* (si the card) or a foundation (si the suit), to a cascade (di its index),
\* the reserve or the foundation (di = 0)
Transitions(v) ==
    [sk : {"cascade"}, si : CascadeIx, dk : {"cascade"}, di : CascadeIx]
    \cup [sk : {"cascade"}, si : CascadeIx, dk : {"reserve", "foundation"}, di : {0}]
    \cup [sk : {"reserve"}, si : v.reserve, dk : {"cascade"}, di : CascadeIx]
    \cup [sk : {"reserve"}, si : v.reserve, dk : {"foundation"}, di : {0}]
    \cup [sk : {"foundation"}, si : Suits, dk : {"cascade"}, di : CascadeIx]

SourceCard(v, t) ==
    IF t.sk = "cascade" THEN Top(v.cascades[t.si])
    ELSE IF t.sk = "reserve" THEN (IF t.si \in v.reserve THEN t.si ELSE 0)
    ELSE (IF v.foundation[t.si] > 0 THEN Card(v.foundation[t.si], t.si) ELSE 0)

Stacks(v, c, j) ==
    \/ v.cascades[j] = <<>>
    \/ /\ face(Top(v.cascades[j])) = face(c) + 1
       /\ color(Top(v.cascades[j])) # color(c)

\* the six rows of the legality table
TableLegal(v, t) ==
    LET c == SourceCard(v, t)
    IN  /\ c # 0
        /\ CASE t.sk = "cascade" /\ t.dk = "cascade" -> Stacks(v, c, t.di)
             [] t.sk = "cascade" /\ t.dk = "reserve" -> Cardinality(v.reserve) < RESERVE_SIZE
             [] t.sk = "cascade" /\ t.dk = "foundation" -> v.foundation[suit(c)] = face(c) - 1
             [] t.sk = "reserve" /\ t.dk = "cascade" -> Stacks(v, c, t.di)
             [] t.sk = "reserve" /\ t.dk = "foundation" -> v.foundation[suit(c)] = face(c) - 1
             [] t.sk = "foundation" /\ t.dk = "cascade" -> Stacks(v, c, t.di)

\* the board after the transition
TableApply(v, t) ==
    LET c  == SourceCard(v, t)
        v1 == IF t.sk = "cascade"
              THEN [v EXCEPT !.cascades[t.si] = SubSeq(@, 1, Len(@) - 1)]
              ELSE IF t.sk = "reserve" THEN [v EXCEPT !.reserve = @ \ {c}]
              ELSE [v EXCEPT !.foundation[t.si] = @ - 1]
    IN  IF t.dk = "cascade" THEN [v1 EXCEPT !.cascades[t.di] = Append(@, c)]
        ELSE IF t.dk = "reserve" THEN [v1 EXCEPT !.reserve = @ \cup {c}]
        ELSE [v1 EXCEPT !.foundation[suit(c)] = @ + 1]

\* the transition as a Move names it: the card moved, and the card or the
\* place it is put onto
TableRecord(v, t) ==
    <<SourceCard(v, t),
      IF t.dk = "cascade"
      THEN (IF v.cascades[t.di] = <<>> THEN CASCADE ELSE Top(v.cascades[t.di]))
      ELSE IF t.dk = "reserve" THEN RESERVE ELSE FOUNDATION>>

TableMoves(v) == {t \in Transitions(v) : TableLegal(v, t)}
TableSucc(v) == {TableApply(v, t) : t \in TableMoves(v)}

\* the board before entry k of the returned list
BoardBefore(k) == IF k = 1 THEN inflate(graph[1]) ELSE result[k - 1].result

Won(v) == \A s \in Suits : v.foundation[s] = K

RootView == View(inflate(graph[1]))

\* the number of predecessor links from node n back to the root
RECURSIVE Links(_, _)
Links(graph0, n) ==
    IF graph0[n].previous = 0 THEN 0 ELSE 1 + Links(graph0, graph0[n].previous)

\* a deal one move from won: 51 cards on the foundation, the last king on
\* top of a cascade or in the reserve
OneKingLeft(v) ==
    /\ SumTo(v.foundation, 3) = TOTAL_CARDS - 1
    /\ \E s \in Suits :
          /\ v.foundation[s] = K - 1
          /\ \/ Card(K, s) \in v.reserve
             \/ \E i \in CascadeIx : Top(v.cascades[i]) = Card(K, s)

LastKing(v) == Card(K, CHOOSE s \in Suits : v.foundation[s] = K - 1)

\* the boards the walk has in hand: wb and the children possible_moves
\* hands to visit for it
Range(seq) == {seq[k] : k \in 1..Len(seq)}
WalkBoards == {wb} \cup Range(generated_moves(wb))
ChildViews == {View(inflate(c)) : c \in Range(generated_moves(wb))}

\* how often card c occurs on board b: in the bank, in the reserve, and
\* among the ranks the foundation counter of its suit stands for
Occurrences(b, c) ==
    Cardinality({i \in BankIx : b.cards[i] = c})
    + Cardinality({i \in ReserveIx : b.reserve[i] = c})
    + (IF face(c) <= b.foundation[suit(c)] THEN 1 ELSE 0)

\* ------------------------------------------------------------------------
\* Properties of solve and main (specification Spec)
\* ------------------------------------------------------------------------

\* C1: for every entry k of a returned list, applying the move recorded in
\* the entry (the card moved, the card or place it is put onto) to the board
\* before it (the initial deal for k = 1) yields the board of entry k.
C1_recorded_move_yields_board ==
    pc = "returned" =>
       \A k \in 1..Len(result) :
          LET before == View(BoardBefore(k))
          IN  \E t \in Transitions(before) :
                 /\ SourceCard(before, t) # 0
                 /\ TableRecord(before, t) = result[k].action
                 /\ TableApply(before, t) = View(result[k].result)

\* C2: a returned non-empty list ends in a won board (all four foundation
\* counters 13), and solve has returned with a non-empty frontier (the
\* success branch) only with a won node on top of it.
C2_returned_list_ends_won ==
    pc = "returned" =>
       /\ result # <<>> => Won(View(result[Len(result)].result))
       /\ search # <<>> => Won(View(inflate(graph[SearchQ_top(search)])))

C2_witness == pc = "returned" /\ Len(result) >= 2 /\ freed_results > 0

\* C3: in a returned list every board comes from the board before it (the
\* initial deal for the first) by one single-card transition of the legality
\* table, boards compared by cascades, foundation counters and reserve set.
C3_returned_boards_one_legal_step ==
    pc = "returned" =>
       \A k \in 1..Len(result) :
          View(result[k].result) \in TableSucc(View(BoardBefore(k)))

\* a returned path that runs through a relaxed node
C3_witness ==
    /\ pc = "returned"
    /\ Len(result) >= 3
    /\ graph[SearchQ_top(search)].depth # Len(result)

\* C4: the returned list is as long as the stored depth of the winning node,
\* and at every point of the search the stored depth of every visited node
\* is the number of predecessor links from it back to the root.
C4_depth_is_path_length ==
    /\ pc = "returned" /\ search # <<>>
          => Len(result) = graph[SearchQ_top(search)].depth
    /\ \A n \in 1..Len(graph) : graph[n].depth = Links(graph, n)

\* C5: when the initial board is already won, solve returns the empty list
\* and main exits with status 0.
C5_won_deal_exits_with_success ==
    pc = "exited" /\ Won(RootView) => result = <<>> /\ exit_code = 0

\* C6: from a deal one move from won, solve returns exactly one move, and it
\* puts the king onto the foundation.
C6_one_move_from_won ==
    pc = "returned" /\ OneKingLeft(RootView) =>
       /\ Len(result) = 1
       /\ result[1].action = <<LastKing(RootView), FOUNDATION>>
       /\ Won(View(result[1].result))

\* the king waits in the last reserve slot
C6_witness ==
    /\ pc = "returned"
    /\ OneKingLeft(RootView)
    /\ graph[1].reserve[RESERVE_SIZE - 1] # 0
    /\ Len(result) = 1

\* ------------------------------------------------------------------------
\* Properties of the generated boards (specification SpecWalk)
\* ------------------------------------------------------------------------

\* C7: on every board reached by generated moves, and on every successor
\* handed to visit, foundation + occupied reserve slots + cascade cards = 52,
\* the dividers increase strictly and each points at an empty bank slot, no
\* slot inside a cascade is empty, and check_sanity does not abort.
C7_boards_stay_sane ==
    \A b \in WalkBoards :
       /\ SumTo(b.foundation, 3)
            + Cardinality({i \in ReserveIx : b.reserve[i] # 0})
            + SumTo([i \in CascadeIx |-> cascade(b, i).size], CASCADE_COUNT - 1)
          = TOTAL_CARDS
       /\ \A i \in CascadeIx :
             /\ i > 0 => b.cascade_divs[i] > b.cascade_divs[i - 1]
             /\ b.cards[b.cascade_divs[i]] = 0
             /\ \A j \in 0..(cascade(b, i).size - 1) : b.cards[cascade(b, i).base + j] # 0
       /\ check_sanity(b)

\* a board made by moving a card between two cascades
C7_witness ==
    /\ wb.action_taken.dest = CASCADE
    /\ wb.reserve = [i \in ReserveIx |-> 0]
    /\ \E c \in Range(generated_moves(wb)) : c.action_taken.dest = RESERVE

\* C8: on every board reached by generated moves each of the 52 cards occurs
\* exactly once across the cascades, the reserve and the ranks the foundation
\* counters stand for; every foundation counter is in 0..13 and at most 4
\* reserve slots are occupied.
C8_each_card_once ==
    \A b \in WalkBoards :
       /\ \A c \in 4..(4 * K + 3) : Occurrences(b, c) = 1
       /\ \A s \in Suits : b.foundation[s] \in 0..K
       /\ Cardinality({i \in ReserveIx : b.reserve[i] # 0}) <= RESERVE_SIZE

\* a board made by putting a card onto the foundation, another in the reserve
C8_witness ==
    /\ wb.action_taken.dest = FOUNDATION
    /\ \E i \in ReserveIx : wb.reserve[i] # 0

\* C9: every child possible_moves hands to visit comes from the parent by a
\* transition that is legal per the table; none leaves the board as it was.
C9_children_are_table_legal ==
    LET children == ChildViews
        parent   == View(inflate(wb))
    IN  /\ children \subseteq TableSucc(parent)
        /\ parent \notin children

\* a parent with a child that pulls a card down from the foundation
C9_witness ==
    \E c \in Range(generated_moves(wb)) :
       SumTo(c.foundation, 3) < SumTo(wb.foundation, 3)

\* C10: every transition from a cascade or a reserve card that is legal per
\* the table is applied by possible_moves and its child handed to visit,
\* for every source cascade 0..7.
C10_every_legal_move_generated ==
    LET children == ChildViews
        parent   == View(inflate(wb))
    IN  \A t \in TableMoves(parent) :
           t.sk # "foundation" => TableApply(parent, t) \in children

\* C11: every foundation -> cascade transition that is legal per the table
\* (the suit has a card on the foundation, the cascade is empty or its top
\* card is one rank higher and of the other color) is applied by
\* possible_moves and its child handed to visit.
C11_foundation_moves_generated ==
    LET children == ChildViews
        parent   == View(inflate(wb))
    IN  \A t \in TableMoves(parent) :
           t.sk = "foundation" => TableApply(parent, t) \in children

\* the same for the destinations that hold a card, cascade 0 apart (whose
\* emptiness test is the one C10 is about)
FoundationMovesOntoCards ==
    LET children == ChildViews
        parent   == View(inflate(wb))
    IN  \A t \in TableMoves(parent) :
           t.sk = "foundation" /\ t.di # 0 /\ parent.cascades[t.di] # <<>>
              => TableApply(parent, t) \in children

\* the fingerprint of a board: its cascades and its foundation counters
Fingerprint(v) == [cascades |-> v.cascades, foundation |-> v.foundation]

\* C12: two distinct legal transitions from a board never give children
\* with the same fingerprint, and no two children that possible_moves hands
\* to visit in one expansion are equal under BasicallyEqual.
C12_one_move_per_successor ==
    LET ch     == generated_moves(wb)
        parent == View(inflate(wb))
        legal  == TableMoves(parent)
    IN  /\ \A t1 \in legal : \A t2 \in legal :
              t1 # t2 => Fingerprint(TableApply(parent, t1)) # Fingerprint(TableApply(parent, t2))
        /\ \A i \in 1..Len(ch) : \A j \in 1..Len(ch) :
              i # j => ~BasicallyEqual(ch[i], ch[j])

\* one card moved onto two different empty cascades: two children recorded
\* as the same move
C12_witness ==
    LET ch == generated_moves(wb)
    IN  \E i \in 1..Len(ch) : \E j \in 1..Len(ch) :
           /\ i # j
           /\ ch[i].action_taken = ch[j].action_taken
           /\ ch[i].action_taken.dest = CASCADE

\* the bytes BasicallyEqual compares
BankAndFoundation(b) == <<b.cards, b.foundation>>

\* the node the driver is about to expand, if any
Expanding == pc = "loop" /\ search # <<>> /\ ~is_won(graph[SearchQ_top(search)])

\* C13: no two nodes of the visited set have the same card bank and
\* foundation counters; an expansion makes exactly one node for every bank
\* and foundation among its children that the set did not hold, none for a
\* child the set holds already (in whatever order its reserve slots are);
\* and a child has the hash code of the node it is BasicallyEqual to.
C13_one_node_per_fingerprint ==
    /\ Cardinality({BankAndFoundation(graph[p]) : p \in 1..Len(graph)}) = Len(graph)
    /\ Expanding =>
          LET top      == graph[SearchQ_top(search)]
              children == Range(generated_moves(top))
              after    == possible_moves(top, graph).graph
              known    == {BankAndFoundation(graph[p]) : p \in 1..Len(graph)}
          IN  /\ Len(after) = Len(graph)
                    + Cardinality({BankAndFoundation(c) : c \in children} \ known)
              /\ Cardinality({BankAndFoundation(after[p]) : p \in 1..Len(after)}) = Len(after)
              /\ \A c \in children : \A p \in 1..Len(after) :
                    BasicallyEqual(c, after[p]) => Hash(c) = after[p].hash

\* a child that differs from a node of the set in the order of the reserve
\* slots only
C13_witness ==
    /\ Expanding
    /\ \E c \in Range(generated_moves(graph[SearchQ_top(search)])) :
          \E p \in 1..Len(graph) :
             /\ BasicallyEqual(c, graph[p])
             /\ c.reserve # graph[p].reserve

\* C14: no step of the search raises the depth stored in a node of the
\* visited set, so every node stays at or below the depth it was inserted
\* with; the root, the first node, keeps depth 0.
C14_depth_never_increases ==
    /\ [](Len(graph) >= 1 /\ graph[1].depth = 0 /\ graph[1].previous = 0)
    /\ [][/\ Len(graph') >= Len(graph)
          /\ \A p \in 1..Len(graph) : graph'[p].depth <= graph[p].depth]_vars

\* the expansion about to happen lowers the depth of a node (a relaxation)
C14_witness ==
    /\ Expanding
    /\ \E after \in {possible_moves(graph[SearchQ_top(search)], graph).graph} :
          \E p \in 1..Len(graph) : after[p].depth < graph[p].depth

\* the nodes no longer in the frontier (popped or pruned)
OffFrontier == {p \in 1..Len(graph) : p \notin Range(search)}

\* C15: no step of the driver takes a node out of the visited set or
\* changes the bank and foundation a node stands for; every frontier entry
\* is a node of the set; and a child equal to a node that has left the
\* frontier is found there, no second node is made for it.
C15_visited_set_only_grows ==
    /\ [][/\ Len(graph') >= Len(graph)
          /\ \A p \in 1..Len(graph) :
                /\ BankAndFoundation(graph'[p]) = BankAndFoundation(graph[p])
                /\ graph'[p].addr = graph[p].addr]_vars
    /\ [](\A k \in 1..Len(search) : search[k] \in 1..Len(graph))
    /\ [](Expanding =>
            LET top   == graph[SearchQ_top(search)]
                after == possible_moves(top, graph).graph
                gone  == {BankAndFoundation(graph[p]) : p \in OffFrontier}
            IN  \A q \in (Len(graph) + 1)..Len(after) :
                   BankAndFoundation(after[q]) \notin gone)

\* entries have been pruned, and the expansion about to happen generates a
\* board whose node is no longer in the frontier
C15_witness ==
    /\ Expanding
    /\ freed_results > 0
    /\ \E c \in Range(generated_moves(graph[SearchQ_top(search)])) :
          \E p \in OffFrontier : BasicallyEqual(c, graph[p])

\* C16: whenever the driver is at the head of its loop the frontier holds at
\* most as many entries as the ceiling solve was built with; it holds more
\* only between the pushes of an expansion and the pruning loop after them.
C16_frontier_within_ceiling ==
    /\ pc # "gc" => Len(search) <= gc_limit
    /\ Len(search) > gc_limit => pc = "gc" /\ Len(prune_loop(search, freed_results, gc_limit).c) = gc_limit

\* the pruning loop has just cut the frontier down to the ceiling
C16_witness ==
    /\ pc = "loop"
    /\ freed_results > 0
    /\ Len(search) = gc_limit

\* the frontier above the ceiling, between the pushes and the pruning loop
C16_transient == pc = "gc" /\ Len(search) > gc_limit + 1

\* C17: solve comes to an end, and it ends at a won top node or with the
\* frontier empty; every expansion takes a node out of the frontier for
\* good, so expansions, frontier entries and pruned entries together count
\* the nodes of the visited set and there are never more expansions than
\* nodes.
C17_solve_terminates ==
    <>(/\ pc = "exited"
       /\ search = <<>> \/ is_won(graph[SearchQ_top(search)])
       /\ ino + Len(search) + freed_results = Len(graph)
       /\ ino <= Len(graph))

\* solve has returned after a long search
C17_witness ==
    /\ pc = "returned"
    /\ ino >= 10
    /\ Len(graph) > ino

\* bank, dividers and foundation counters of two boards are the same
SameLayout(a, b) ==
    /\ a.cards = b.cards
    /\ a.cascade_divs = b.cascade_divs
    /\ a.foundation = b.foundation

\* the reserve slot reserve_card fills on board b
FirstFree(b) == CHOOSE r \in ReserveIx :
                   b.reserve[r] = 0 /\ \A q \in ReserveIx : q < r => b.reserve[q] # 0

\* the cascades of b that hold a card
Holding(b) == {i \in CascadeIx : ~view_empty(cascade(b, i))}

\* C18: a move the generator may make, followed at once by the move that
\* takes the card back, gives the bank, the dividers and the foundation
\* counters of the board before: cascade i to cascade j and back, cascade i
\* to the reserve and that card back to i, cascade i to the foundation and
\* the top of that foundation back to i.
C18_move_and_back_restores ==
    pc = "walk" =>
       \A i \in Holding(wb) :
          /\ \A j \in CascadeIx \ {i} :
                tableaux_move_valid(wb, i, j) =>
                   SameLayout(tableaux_move(tableaux_move(wb, i, j), j, i), wb)
          /\ ~reserve_full(wb) =>
                /\ SameLayout(reserve_to_tableau(tableau_to_reserve(wb, i), FirstFree(wb), i), wb)
                /\ reserve_to_tableau(tableau_to_reserve(wb, i), FirstFree(wb), i).reserve
                      = wb.reserve
          /\ foundation_can_accept(wb, cascade_back(wb, i)) =>
                SameLayout(foundation_to_tableau(tableau_to_foundation(wb, i),
                                                 suit(cascade_back(wb, i)), i), wb)

\* a board with all three cases: a cascade of several cards whose last card
\* may go to the foundation, to a cascade holding a card and to a reserve
\* that holds a card already
C18_witness ==
    /\ pc = "walk"
    /\ ~reserve_full(wb)
    /\ \E r \in ReserveIx : wb.reserve[r] # 0
    /\ \E i \in Holding(wb) :
          /\ cascade(wb, i).size >= 2
          /\ foundation_can_accept(wb, cascade_back(wb, i))
          /\ \E j \in Holding(wb) \ {i} : tableaux_move_valid(wb, i, j)

\* the nodes of graph0 that child c is BasicallyEqual to
KnownAs(graph0, c) == {p \in 1..Len(graph0) : BasicallyEqual(c, graph0[p])}

\* one call of visit, from st to st2, on a child c that is known already
KnownChildFrame(st, c, st2) ==
    LET p   == CHOOSE q \in KnownAs(st.graph, c) : TRUE
        P   == c.previous
        old == st.graph[p]
    IN  /\ st2.dest = st.dest
        /\ st2.sane = st.sane
        /\ IF st.graph[P].depth + 1 < old.depth
           THEN st2.graph = [st.graph EXCEPT
                                ![p] = [old EXCEPT !.previous = P,
                                                   !.depth = st.graph[P].depth + 1]]
           ELSE st2.graph = st.graph
        /\ st2.graph[p].heuristic = old.heuristic
        /\ st2.graph[p].depth <= st.graph[P].depth + 1

\* the calls of visit that possible_moves makes, one after the other
RECURSIVE FramesFrom(_, _, _)
FramesFrom(st, children, k) ==
    \/ k > Len(children)
    \/ \E st2 \in {visit(st, children[k])} :
          /\ KnownAs(st.graph, children[k]) # {} => KnownChildFrame(st, children[k], st2)
          /\ FramesFrom(st2, children, k + 1)

\* C19: visit on a child whose bank and foundation a node holds already
\* appends nothing to the new successors; where the parent's depth plus one
\* is below the node's depth it writes that depth and the parent into the
\* node and leaves every other field and every other node alone, and
\* otherwise it changes nothing; the node then lies no deeper than the
\* parent's depth plus one, keeps its score, and the frontier pops as it
\* would have before.
C19_visit_frame_on_known_board ==
    Expanding =>
       LET top == graph[SearchQ_top(search)]
       IN  /\ FramesFrom([dest |-> <<>>, graph |-> graph, sane |-> TRUE],
                         generated_moves(top), 1)
           /\ SearchQ_pop(possible_moves(top, graph).graph, search)
                 = SearchQ_pop(graph, search)

\* one expansion in which a known child relaxes its node and another known
\* child leaves its node as it was
C19_witness ==
    /\ Expanding
    /\ \E after \in {possible_moves(graph[SearchQ_top(search)], graph).graph} :
          /\ \E p \in 1..Len(graph) :
                after[p].depth < graph[p].depth /\ after[p].heuristic = graph[p].heuristic
          /\ \E c \in Range(generated_moves(graph[SearchQ_top(search)])) :
                \E p \in KnownAs(graph, c) : after[p] = graph[p]

\* the stored score of frontier entry k
Score(k) == graph[search[k]].heuristic

\* C20: every entry the pruning loop drops (the last of the frontier's
\* vector, once for each entry above the ceiling) has the lowest score of
\* the entries in the frontier at that moment, so that no entry left after
\* the loop scores lower than one it dropped.
C20_pruning_drops_lowest ==
    pc = "gc" =>
       \A n \in (gc_limit + 1)..Len(search) :
          \A k \in 1..n : Score(n) <= Score(k)

\* C21: whenever the driver is at the head of its loop with entries in the
\* frontier, the entry it examines (the top) scores at least as high as
\* every entry of the frontier, whatever pushes, pops and pop_back calls
\* came before.
C21_top_scores_highest ==
    pc = "loop" /\ search # <<>> =>
       \A k \in 1..Len(search) : graph[SearchQ_top(search)].heuristic >= Score(k)

\* the head of the loop after pruning, the frontier holding entries of
\* different scores
C21_witness ==
    /\ pc = "loop"
    /\ freed_results > 0
    /\ ino >= 2
    /\ \E k \in 2..Len(search) : Score(k) < Score(1)

\* C22: the entries a step adds to the frontier are nodes the same step
\* added to the visited set, one entry each, so a node enters the frontier
\* once, when it is made, and never after it was relaxed, popped or pruned;
\* the node an expansion examines leaves the frontier with it; and the
\* frontier never holds a node twice.
C22_pushed_once ==
    /\ [](Cardinality(Range(search)) = Len(search))
    /\ [][/\ \A k \in 1..Len(search') :
                search'[k] \in Range(search) \/ search'[k] > Len(graph)
          /\ (pc = "loop" /\ pc' = "gc") => SearchQ_top(search) \notin Range(search')]_vars

\* entries have been pruned, and the expansion about to happen relaxes a
\* node that is no longer in the frontier
C22_witness ==
    /\ Expanding
    /\ freed_results > 0
    /\ \E after \in {possible_moves(graph[SearchQ_top(search)], graph).graph} :
          \E p \in OffFrontier : after[p].depth < graph[p].depth

\* every node but the root has a predecessor in the set that lies at a
\* smaller depth; the root, the first node, is the one node without
StrictlyBelowPredecessor ==
    \A p \in 1..Len(graph) :
       IF p = 1 THEN graph[p].previous = 0
       ELSE /\ graph[p].previous \in 1..Len(graph)
            /\ graph[graph[p].previous].depth < graph[p].depth

\* C23: at every point of the search each node other than the root has a
\* predecessor whose stored depth is below its own, and only the root has
\* none; so the links form no cycle, and the walk of describeMoves from a
\* node comes to the root after at most as many links as the node's depth.
C23_links_lead_to_root ==
    /\ StrictlyBelowPredecessor
    /\ \A p \in 1..Len(graph) : Links(graph, p) <= graph[p].depth

\* after a relaxation: a node more than one level below its predecessor
C23_witness ==
    \E p \in 2..Len(graph) :
       /\ graph[graph[p].previous].depth + 1 < graph[p].depth
       /\ Links(graph, p) < graph[p].depth

\* the score of the pair of cards t - 1, t (counted from the bottom, from 0)
\* of a cascade of the given size
PairScore(b, v, t) ==
    IF face(b.cards[v.base + t]) > face(b.cards[v.base + t - 1])
    THEN 0 - (v.size - t) * INACCESSIBILITY_PUNISHMENT
    ELSE TABLEAU_REWARD

RECURSIVE SumPairs(_, _, _)
SumPairs(b, v, t) ==
    IF t >= v.size THEN 0 ELSE PairScore(b, v, t) + SumPairs(b, v, t + 1)

RECURSIVE SumCascades(_, _)
SumCascades(b, i) ==
    IF i >= CASCADE_COUNT THEN 0
    ELSE SumPairs(b, cascade(b, i), 1) + SumCascades(b, i + 1)

\* the score with every adjacent pair of every cascade counted once
ScoreByPairs(b) ==
    SumTo(b.foundation, 3) * HEURISTIC_GREED
    + SumCascades(b, 0)
    - b.depth * MOVE_PUNISHMENT

\* C24: calc_heuristic of a board is the greed times the cards on the
\* foundation, plus the reward for every adjacent pair in a cascade that is
\* not an inversion, minus the punishment times the number of cards from
\* the upper card of the pair to the end of the cascade for every inversion,
\* minus the move cost times the depth; every pair of every cascade counts
\* once, also in a cascade that comes after empty ones.
C24_heuristic_counts_every_pair ==
    pc = "walk" => \A b \in WalkBoards : calc_heuristic(b) = ScoreByPairs(b)

\* no cascade of two or more cards comes after an empty one
NoPairAfterGap(b) ==
    \A i, j \in CascadeIx :
       i < j /\ view_empty(cascade(b, i)) => cascade(b, j).size < 2

\* what does hold: the two scores agree on the boards whose pairs all lie
\* before the first empty cascade
HeuristicBeforeFirstGap ==
    pc = "walk" =>
       \A b \in WalkBoards : NoPairAfterGap(b) => calc_heuristic(b) = ScoreByPairs(b)

\* the cards of cascade i of board b, bottom first
Cards(b, i) == Slice(b.cards, cascade(b, i).base, b.cascade_divs[i])

AllButLast(seq) == SubSeq(seq, 1, Len(seq) - 1)

\* board r is board b with card c taken from (from >= 0: the end of that
\* cascade; RESERVE: slot fslot; FOUNDATION: the top of the suit of c) and
\* put to (to >= 0: the end of that cascade; RESERVE: slot tslot;
\* FOUNDATION: the suit of c), and nothing else different
OnlyMoved(b, r, c, from, fslot, to, tslot) ==
    /\ c # 0
    /\ \A i \in CascadeIx :
          Cards(r, i) = IF i = from THEN AllButLast(Cards(b, i))
                        ELSE IF i = to THEN Append(Cards(b, i), c)
                        ELSE Cards(b, i)
    /\ from >= 0 => Cards(b, from) # <<>> /\ Cards(b, from)[Len(Cards(b, from))] = c
    /\ \A q \in ReserveIx :
          r.reserve[q] = IF from = RESERVE /\ q = fslot THEN 0
                         ELSE IF to = RESERVE /\ q = tslot THEN c
                         ELSE b.reserve[q]
    /\ from = RESERVE => b.reserve[fslot] = c
    /\ to = RESERVE => b.reserve[tslot] = 0
    /\ \A u \in Suits :
          r.foundation[u] = IF from = FOUNDATION /\ u = suit(c) THEN b.foundation[u] - 1
                            ELSE IF to = FOUNDATION /\ u = suit(c) THEN b.foundation[u] + 1
                            ELSE b.foundation[u]
    /\ from = FOUNDATION => b.foundation[suit(c)] = face(c)
    /\ to = FOUNDATION => b.foundation[suit(c)] = face(c) - 1

\* C25: the board each of the six appliers returns for a move the generator
\* may make is the parent with the one card taken from its source and put
\* to its destination: every other cascade has its cards at its place,
\* every other reserve slot and foundation counter is the parent's.
C25_appliers_change_source_and_destination ==
    pc = "walk" =>
       /\ \A r \in ReserveIx : \A i \in CascadeIx :
             reserve_to_tableau_valid(wb, r, i) =>
                OnlyMoved(wb, reserve_to_tableau(wb, r, i), wb.reserve[r], RESERVE, r, i, 0)
       /\ \A i \in CascadeIx : \A j \in CascadeIx \ {i} :
             tableaux_move_valid(wb, i, j) =>
                OnlyMoved(wb, tableaux_move(wb, i, j), cascade_back(wb, i), i, 0, j, 0)
       /\ \A i \in Holding(wb) :
             ~reserve_full(wb) =>
                OnlyMoved(wb, tableau_to_reserve(wb, i), cascade_back(wb, i),
                          i, 0, RESERVE, FirstFree(wb))
       /\ \A i \in Holding(wb) :
             foundation_can_accept(wb, cascade_back(wb, i)) =>
                OnlyMoved(wb, tableau_to_foundation(wb, i), cascade_back(wb, i),
                          i, 0, FOUNDATION, 0)
       /\ \A u \in Suits : \A i \in CascadeIx :
             foundation_to_tableau_valid(wb, u, i) =>
                OnlyMoved(wb, foundation_to_tableau(wb, u, i), Card(wb.foundation[u], u),
                          FOUNDATION, 0, i, 0)
       /\ \A r \in ReserveIx :
             foundation_can_accept(wb, wb.reserve[r]) =>
                OnlyMoved(wb, reserve_to_foundation(wb, r), wb.reserve[r],
                          RESERVE, r, FOUNDATION, 0)

\* a board on which five of the appliers have a move, next to cards they
\* must leave alone: two cascades that hold cards and a reserve that holds
\* one
C25_witness ==
    /\ pc = "walk"
    /\ ~reserve_full(wb)
    /\ \E r \in ReserveIx : \E i \in CascadeIx : reserve_to_tableau_valid(wb, r, i)
    /\ \E i \in Holding(wb) : \E j \in Holding(wb) \ {i} : tableaux_move_valid(wb, i, j)
    /\ \E i \in Holding(wb) : foundation_can_accept(wb, cascade_back(wb, i))
    /\ \E u \in Suits : \E i \in Holding(wb) : foundation_to_tableau_valid(wb, u, i)

\* a board on which the sixth has one: a reserve card the foundation takes,
\* another card in the reserve
C25_reserve_to_foundation_case ==
    /\ pc = "walk"
    /\ \E r, q \in ReserveIx :
          r # q /\ wb.reserve[q] # 0 /\ foundation_can_accept(wb, wb.reserve[r])

\* the cards in the reserve slots of b
ReserveSet(b) == {b.reserve[q] : q \in ReserveIx} \ {0}

\* the cards of the deck that are neither in the bank of b nor counted on
\* its foundation
NotOnTable(b) ==
    {c \in 4..(4 * K + 3) : face(c) > b.foundation[suit(c)]} \ {b.cards[i] : i \in BankIx}

\* the banks and foundations the generator reaches from b
SuccessorPrints(b) == {BankAndFoundation(x) : x \in Range(generated_moves(b))}

\* C26: the reserve of every node, and of every child the generator hands to
\* visit, holds exactly the cards that its bank and its foundation leave
\* over, each once; so a child with the bank and foundation of a node has
\* the reserve cards of that node, in whatever slots, and the generator
\* reaches the same banks and foundations from the two.
C26_same_bank_same_reserve_cards ==
    /\ \A p \in 1..Len(graph) :
          /\ ReserveSet(graph[p]) = NotOnTable(graph[p])
          /\ \A c \in ReserveSet(graph[p]) : Occurrences(graph[p], c) = 1
    /\ Expanding =>
          \A c \in Range(generated_moves(graph[SearchQ_top(search)])) :
             /\ ReserveSet(c) = NotOnTable(c)
             /\ \A p \in KnownAs(graph, c) :
                   /\ ReserveSet(c) = ReserveSet(graph[p])
                   /\ View(inflate(c)) = View(inflate(graph[p]))
                   /\ SuccessorPrints(c) = SuccessorPrints(graph[p])

\* visit is about to drop a child that holds two cards in its reserve in
\* other slots than the node it is a duplicate of
C26_witness ==
    /\ Expanding
    /\ \E c \in Range(generated_moves(graph[SearchQ_top(search)])) :
          \E p \in KnownAs(graph, c) :
             /\ Cardinality(ReserveSet(c)) >= 2
             /\ c.reserve # graph[p].reserve

\* the won nodes of the visited set: the won boards that were pushed
WonNodes == {p \in 1..Len(graph) : is_won(graph[p])}

\* C27: a won board that the search has found and pushed (the deal itself
\* not being won) stays in the frontier until solve returns it (a node is
\* pushed once, so a won node that left the frontier could never come to
\* the top), and solve does not return the empty list once a won board is
\* in the visited set.
C27_discovered_win_is_returned ==
    WonNodes # {} /\ 1 \notin WonNodes =>
       /\ WonNodes \subseteq Range(search)
       /\ pc = "returned" => result # <<>>

\* what does hold: while nothing has been pruned, a won board that was
\* pushed is in the frontier, and solve returns a list after it
WinReturnedWithoutPruning ==
    WonNodes # {} /\ 1 \notin WonNodes /\ freed_results = 0 =>
       /\ WonNodes \subseteq Range(search)
       /\ pc = "returned" => result # <<>>

\* ------------------------------------------------------------------------
\* The tokens of a deal text: a token starts where a character that is neither
\* white space nor a colon follows the start of the text, white space or a
\* colon. TokensSince(desc, e, Stops) counts the tokens that start at or
\* before position e and after the last character of Stops before e.
\* ------------------------------------------------------------------------
TokenStarts(desc) ==
    {q \in 1..Len(desc) : InToken(desc[q]) /\ (q = 1 \/ ~InToken(desc[q - 1]))}

LastOf(desc, e, Stops) ==
    LET at == {q \in 1..e : desc[q] \in Stops}
    IN  IF at = {} THEN 0 ELSE CHOOSE q \in at : \A r \in at : r <= q

TokensSince(desc, e, Stops) ==
    Cardinality({q \in TokenStarts(desc) : LastOf(desc, e, Stops) < q /\ q <= e})

\* the step of the parser that appends a card
CardRead == parse'.cascade = parse.cascade + 1

\* ------------------------------------------------------------------------
\* C28: while a deal is parsed, the cascade index is reset to 0 only by a
\* colon: the k-th token after the last colon (after the start of the text
\* when there is none) is appended to cascade k-1, whatever line feeds lie in
\* between, so that the tokens of a line that does not begin with ':' go to
\* the cascades after the one of the previous line's last token.
\* Violated: a line feed or a carriage return resets the index as well.
\* ------------------------------------------------------------------------
C28_only_colon_resets_cascade ==
    [][CardRead =>
         parse.cascade = TokensSince(parse.desc, parse'.i, {":"}) - 1]_parse

\* What the parser does: the k-th token after the last colon, carriage return
\* or line feed is appended to cascade k-1, at the end of that cascade.
TokenCountedFromLineStart ==
    [][CardRead =>
         /\ parse.cascade = TokensSince(parse.desc, parse'.i, {":", "\r", "\n"}) - 1
         /\ \E card \in 1..63 :
               /\ parse'.cascades[parse'.cascade] =
                     Append(IF parse.cascade < Len(parse.cascades)
                            THEN parse.cascades[parse'.cascade] ELSE <<>>, card)
               /\ \A c \in 1..Len(parse.cascades) :
                     c # parse'.cascade => parse'.cascades[c] = parse.cascades[c]]_parse

====
